---------------------------- MODULE Spec2Model ----------------------------
(***************************************************************************)
(* Insertion-only AVL tree of priority-finder (Node / Tree), modelled on   *)
(* a heap of nodes addressed by pointer.                                   *)
(*                                                                         *)
(* A pointer is a natural number: Nil (0) is Go's nil, k > 0 is the k-th   *)
(* node allocated.  mem[k] holds the four fields of that node.  One        *)
(* Tree.Insert call is one step of the model.                              *)
(***************************************************************************)
EXTENDS Integers, Sequences, FiniteSets

\* Bounds of the model.
MaxInserts == 10
MaxVal == 2
MaxDistinct == 6
MaxValWide == 3
MaxAnswers == 1

Nil == 0
\* Stands for the string "fakeParent" stored in the synthetic parent.
FakeParentValue == 0

Values == 1..MaxVal
DistinctValues == 1..MaxDistinct
WideValues == 1..MaxValWide

VARIABLES
  mem,       \* heap: sequence of Node records, pointer = index
  Root,      \* Tree.Root
  inserted,  \* the values of the Tree.Insert calls that returned, in call order
  panicked,  \* TRUE once a nil pointer was dereferenced (the program died)
  lessPanicked, \* TRUE once less hit panic(err) on stdin (the program died)
  calls,     \* the Node.Insert calls of the latest Tree.Insert, in return order
  rots,      \* the rebalance calls of the latest Tree.Insert, in call order
  bases      \* the leaves the latest Tree.Insert created next to a sibling

vars == <<mem, Root, inserted, panicked, lessPanicked, calls, rots, bases>>

--------------------------------------------------------------------------
\* The elements are the lines of the input file.  The model names an element
\* by its rank in the priority order the person at the terminal has in mind
\* (rank 1 is the highest priority; two elements of the same rank are ones
\* the person does not put before one another).  Asked "a) x  b) y  Which is
\* higher priority?", a person who answers by that order means "a" exactly
\* when x ranks before y.
Prefers(a, b) == a < b

\* A character is its Unicode code point; the model types code points up
\* to U+00FF.  Rune gives the code point of the characters the model names.
Rune(ch) ==
  CASE ch = "a" -> 97 [] ch = "b" -> 98 [] ch = "x" -> 120
    [] ch = "A" -> 65 [] ch = "B" -> 66
    [] ch = " " -> 32 [] ch = "\t" -> 9 [] ch = "\n" -> 10 [] ch = "\f" -> 12

\* A line of stdin is a sequence of characters, its newline included.
Line(txt) == Append(txt, Rune("\n"))

\* What is on stdin when less asks about (a, b).  The person u answers by
\* Prefers and types in one of three styles: "plain" is the bare letter;
\* "messy" is a line that is no choice, then the letter in upper case after
\* a blank and before a tab and a form feed; "cut" is the letter with stdin
\* closed before the newline.
\* A person who closes stdin does so after u.answers answered questions; k
\* is the number of questions answered before this one.
Typed(u, k, a, b) ==
  IF u.closes /\ k >= u.answers THEN <<>>
  ELSE IF u.style = "plain"
    THEN << Line(<<Rune(IF Prefers(a, b) THEN "a" ELSE "b")>>) >>
  ELSE IF u.style = "messy"
    THEN << Line(<<Rune("x")>>),
            Line(<<Rune(" "), Rune(IF Prefers(a, b) THEN "A" ELSE "B"),
                   Rune("\t"), Rune("\f")>>) >>
  ELSE << <<Rune(IF Prefers(a, b) THEN "a" ELSE "b")>> >>

\* The persons of the model: two who answer every question, one who never
\* ends a line, those who close stdin after at most MaxAnswers answers.
Users ==
  {[style |-> st, closes |-> FALSE, answers |-> 0] : st \in {"plain", "messy", "cut"}}
    \cup {[style |-> "plain", closes |-> TRUE, answers |-> k] : k \in 0..MaxAnswers}

\* unicode.IsSpace, which strings.TrimSpace trims by: \t \n \v \f \r, the
\* blank, U+0085, U+00A0, and the space characters beyond U+00FF (U+1680,
\* U+2000..U+200A, U+2028, U+2029, U+202F, U+205F, U+3000).
IsSpace(ch) ==
  \/ ch \in 9..13
  \/ ch \in {32, 133, 160, 5760, 8232, 8233, 8239, 8287, 12288}
  \/ ch \in 8192..8202

RECURSIVE TrimLeft(_)
TrimLeft(l) ==
  IF l = <<>> THEN l
  ELSE IF IsSpace(Head(l)) THEN TrimLeft(Tail(l)) ELSE l

RECURSIVE TrimRight(_)
TrimRight(l) ==
  IF l = <<>> THEN l
  ELSE IF IsSpace(l[Len(l)]) THEN TrimRight(SubSeq(l, 1, Len(l) - 1)) ELSE l

\* strings.TrimSpace
TrimSpace(l) == TrimRight(TrimLeft(l))

\* unicode.ToLower on a code point up to U+00FF: A..Z, and the upper-case
\* letters U+00C0..U+00D6 and U+00D8..U+00DE, lie 32 below their lower case.
ToLowerRune(ch) ==
  IF ch \in 65..90 \/ ch \in 192..214 \/ ch \in 216..222 THEN ch + 32 ELSE ch

\* strings.ToLower
ToLower(l) == [i \in 1..Len(l) |-> ToLowerRune(l[i])]

\* less, lines 14-30: the loop that reads lines until one is a choice.
\* ReadString fails at the end of stdin, also when characters without a
\* newline came first, and less panics; a line that is neither "a" nor "b"
\* once trimmed and lower-cased is rejected and the next line is read.
RECURSIVE readChoice(_)
readChoice(in) ==
  IF in = <<>> THEN "panic"
  ELSE IF Head(in) = <<>> THEN "panic"
  ELSE IF Head(in)[Len(Head(in))] # Rune("\n") THEN "panic"
  ELSE IF ToLower(TrimSpace(Head(in))) = <<Rune("a")>> THEN "true"
  ELSE IF ToLower(TrimSpace(Head(in))) = <<Rune("b")>> THEN "false"
  ELSE readChoice(Tail(in))

\* &Node{Value: value}
NewNode(v) == [Value |-> v, Left |-> Nil, Right |-> Nil, bal |-> 0]

\* Measured height of the subtree at pointer n (0 for nil).
RECURSIVE Height(_, _)
Height(m, n) ==
  IF n = Nil THEN 0
  ELSE LET hl == Height(m, m[n].Left)
           hr == Height(m, m[n].Right)
       IN 1 + (IF hl > hr THEN hl ELSE hr)

\* Tree.Traverse: the nodes in the order the visitor f is applied to them.
RECURSIVE Traverse(_, _)
Traverse(m, n) ==
  IF n = Nil THEN <<>>
  ELSE Traverse(m, m[n].Left) \o <<n>> \o Traverse(m, m[n].Right)

\* What main's visitor prints: the Value of each visited node.
TraverseValues(m, n) ==
  LET t == Traverse(m, n) IN [i \in 1..Len(t) |-> m[t[i]].Value]

--------------------------------------------------------------------------
\* An execution state inside one Tree.Insert: the heap, whether the call is
\* still running normally (ok = FALSE after a panic, err telling which), the
\* log of Node.Insert calls that have returned and the log of rebalance
\* calls.  mem0 keeps the heap as it was when Tree.Insert was entered; bases
\* logs the base cases of Node.Insert that found the other child present;
\* user is the person at stdin.
Exec(m, u) == [mem |-> m, ok |-> TRUE, err |-> "", calls |-> <<>>,
               rots |-> <<>>, mem0 |-> m, bases |-> <<>>, user |-> u]

\* A nil pointer is dereferenced.
Panic(s) == [s EXCEPT !.ok = FALSE, !.err = "nil"]

\* less, line 18: panic(err).
LessPanic(s) == [s EXCEPT !.ok = FALSE, !.err = "stdin"]

\* func less(a, b string) bool, as the k+1st call of one Tree.Insert: "true",
\* "false", or "panic" for panic(err).
less(s, k, a, b) == readChoice(Typed(s.user, k, a, b))

\* A rotateLeft that forgets to reset c.bal.
rotateLeftKeepsBal(s, n, c) ==
  IF ~s.ok THEN s
  ELSE IF c = Nil \/ n = Nil THEN Panic(s)
  ELSE IF s.mem[c].Right = Nil THEN Panic(s)
  ELSE LET r == s.mem[c].Right
       IN [s EXCEPT !.mem =
            [@ EXCEPT ![c].Right = s.mem[r].Left,
                      ![r].Left = c,
                      ![n] = IF c = @.Left THEN [@ EXCEPT !.Left = r]
                                           ELSE [@ EXCEPT !.Right = r],
                      ![r].bal = 0]]

\* A rotateLeft that hands c the right subtree of r instead of the left one.
rotateLeftTakesRight(s, n, c) ==
  IF ~s.ok THEN s
  ELSE IF c = Nil \/ n = Nil THEN Panic(s)
  ELSE IF s.mem[c].Right = Nil THEN Panic(s)
  ELSE LET r == s.mem[c].Right
       IN [s EXCEPT !.mem =
            [@ EXCEPT ![c].Right = s.mem[r].Right,
                      ![r].Left = c,
                      ![n] = IF c = @.Left THEN [@ EXCEPT !.Left = r]
                                           ELSE [@ EXCEPT !.Right = r],
                      ![c].bal = 0,
                      ![r].bal = 0]]

\* func (n *Node) rotateLeft(c *Node).  The five assignments are applied in
\* program order: each clause of the EXCEPT sees the effect of the earlier
\* ones, and the test c == n.Left reads n after the first two.
rotateLeft(s, n, c) ==
  IF ~s.ok THEN s
  ELSE IF c = Nil \/ n = Nil THEN Panic(s)
  ELSE IF s.mem[c].Right = Nil THEN Panic(s)
  ELSE LET r == s.mem[c].Right
       IN [s EXCEPT !.mem =
            [@ EXCEPT ![c].Right = s.mem[r].Left,
                      ![r].Left = c,
                      ![n] = IF c = @.Left THEN [@ EXCEPT !.Left = r]
                                           ELSE [@ EXCEPT !.Right = r],
                      ![c].bal = 0,
                      ![r].bal = 0]]

\* func (n *Node) rotateRight(c *Node)
rotateRight(s, n, c) ==
  IF ~s.ok THEN s
  ELSE IF c = Nil \/ n = Nil THEN Panic(s)
  ELSE IF s.mem[c].Left = Nil THEN Panic(s)
  ELSE LET l == s.mem[c].Left
       IN [s EXCEPT !.mem =
            [@ EXCEPT ![c].Left = s.mem[l].Right,
                      ![l].Right = c,
                      ![n] = IF c = @.Left THEN [@ EXCEPT !.Left = l]
                                           ELSE [@ EXCEPT !.Right = l],
                      ![c].bal = 0,
                      ![l].bal = 0]]

\* p.bal = b, for a pointer p read from the heap; nil p is a crash.
setBal(s, p, b) ==
  IF ~s.ok THEN s
  ELSE IF p = Nil THEN Panic(s)
  ELSE [s EXCEPT !.mem[p].bal = b]

\* c.Right and c.Left as pointers read in state s (Nil when c is nil or the
\* call has already crashed: the dereference that follows then crashes).
rightOf(s, c) == IF s.ok /\ c # Nil THEN s.mem[c].Right ELSE Nil
leftOf(s, c) == IF s.ok /\ c # Nil THEN s.mem[c].Left ELSE Nil

\* c.Right.Right.bal = 1: the wrong grandchild.
rightRightBal(s, c) == setBal(s, rightOf(s, rightOf(s, c)), 1)
\* c.Right.Left.bal = 1
rightLeftBal(s, c) == setBal(s, leftOf(s, rightOf(s, c)), 1)
\* c.rotateRight(c.Right)
rotateRightInner(s, c) == rotateRight(s, c, rightOf(s, c))
\* c.Right.bal = 1
rightBal(s, c) == setBal(s, rightOf(s, c), 1)

\* func (n *Node) rotateRightLeft(c *Node)
rotateRightLeft(s, n, c) ==
  rotateLeft(rightBal(rotateRightInner(rightLeftBal(s, c), c), c), n, c)

\* c.Left.Right.bal = -1
leftRightBal(s, c) == setBal(s, rightOf(s, leftOf(s, c)), -1)
\* c.rotateLeft(c.Left)
rotateLeftInner(s, c) == rotateLeft(s, c, leftOf(s, c))
\* c.Left.bal = -1
leftBal(s, c) == setBal(s, leftOf(s, c), -1)

\* func (n *Node) rotateLeftRight(c *Node)
rotateLeftRight(s, n, c) ==
  rotateRight(leftBal(rotateLeftInner(leftRightBal(s, c), c), c), n, c)

\* Log entry of one rebalance(c): c, c.bal, the bal of the child on c's
\* overweight side, and the case of the switch that was taken.  It also
\* keeps the child (kid) and, for a double rotation, the grandchild that
\* becomes the new subtree root (grand); the number of Node.Insert calls that
\* had returned when rebalance was called (at); and the measured height c's
\* subtree had when Tree.Insert was entered (was; a node that did not exist
\* then had height 0).  top, topLeft, topRight, now and trio describe the
\* outcome and are filled in by noteResult.
logRot(s, c, side, op) ==
  [s EXCEPT !.rots = Append(@,
     [node |-> c, bal |-> s.mem[c].bal, side |-> s.mem[side].bal, op |-> op,
      kid |-> side,
      grand |-> IF op = "rotateLeftRight" THEN s.mem[side].Right
                ELSE IF op = "rotateRightLeft" THEN s.mem[side].Left
                ELSE Nil,
      at |-> Len(s.calls),
      was |-> IF c <= Len(s.mem0) THEN Height(s.mem0, c) ELSE 0,
      top |-> Nil, topLeft |-> Nil, topRight |-> Nil, now |-> 0,
      trio |-> <<>>])]

\* A rebalance that knows the two single-rotation cases only.
rebalanceSingleOnly(s, n, c) ==
  IF c = Nil THEN Panic(s)
  ELSE IF s.mem[c].bal = -2 THEN
         IF s.mem[c].Left = Nil THEN Panic(s)
         ELSE IF s.mem[s.mem[c].Left].bal = -1
           THEN rotateRight(logRot(s, c, s.mem[c].Left, "rotateRight"), n, c)
         ELSE logRot(s, c, s.mem[c].Left, "none")
  ELSE IF s.mem[c].bal = 2 THEN
         IF s.mem[c].Right = Nil THEN Panic(s)
         ELSE IF s.mem[s.mem[c].Right].bal = 1
           THEN rotateLeft(logRot(s, c, s.mem[c].Right, "rotateLeft"), n, c)
         ELSE logRot(s, c, s.mem[c].Right, "none")
  ELSE logRot(s, c, c, "none")

\* func (n *Node) rebalance(c *Node): the switch.  With c.bal = -2 only the
\* two cases on c.Left can match, with c.bal = 2 only the two on c.Right;
\* otherwise no case matches and nothing is done.
rebalance(s, n, c) ==
  IF c = Nil THEN Panic(s)
  ELSE IF s.mem[c].bal = -2 THEN
         IF s.mem[c].Left = Nil THEN Panic(s)
         ELSE IF s.mem[s.mem[c].Left].bal = -1
           THEN rotateRight(logRot(s, c, s.mem[c].Left, "rotateRight"), n, c)
         ELSE IF s.mem[s.mem[c].Left].bal = 1
           THEN rotateLeftRight(logRot(s, c, s.mem[c].Left, "rotateLeftRight"), n, c)
         ELSE logRot(s, c, s.mem[c].Left, "none")
  ELSE IF s.mem[c].bal = 2 THEN
         IF s.mem[c].Right = Nil THEN Panic(s)
         ELSE IF s.mem[s.mem[c].Right].bal = 1
           THEN rotateLeft(logRot(s, c, s.mem[c].Right, "rotateLeft"), n, c)
         ELSE IF s.mem[s.mem[c].Right].bal = -1
           THEN rotateRightLeft(logRot(s, c, s.mem[c].Right, "rotateRightLeft"), n, c)
         ELSE logRot(s, c, s.mem[c].Right, "none")
  ELSE logRot(s, c, c, "none")

\* Stored bal and measured height(right) - height(left) of node x.
balances(m, x) ==
  [node |-> x, bal |-> m[x].bal,
   diff |-> Height(m, m[x].Right) - Height(m, m[x].Left)]

\* The outcome of the rebalance call logged last, observed when it returns:
\* the node that now hangs in the slot of the parent n that held c, its two
\* children, its measured height, and the balances of c, of the child and,
\* after a double rotation, of the grandchild.
noteResult(s, n, wasLeft) ==
  IF ~s.ok \/ s.rots = <<>> THEN s
  ELSE LET top == IF wasLeft THEN s.mem[n].Left ELSE s.mem[n].Right
           e   == s.rots[Len(s.rots)]
       IN [s EXCEPT !.rots[Len(s.rots)] =
            [@ EXCEPT !.top = top,
                      !.topLeft = s.mem[top].Left,
                      !.topRight = s.mem[top].Right,
                      !.now = Height(s.mem, top),
                      !.trio = <<balances(s.mem, e.node),
                                 balances(s.mem, e.kid)>> \o
                               (IF e.grand = Nil THEN <<>>
                                ELSE <<balances(s.mem, e.grand)>>)]]

\* n.rebalance(c) as its callers see it: the call, then the observation of
\* its outcome.
rebalanceObserved(s, n, c) ==
  noteResult(rebalance(s, n, c), n, s.mem[n].Left = c)

--------------------------------------------------------------------------
\* The direction test with its arguments the wrong way round.
goesLeftSwapped(s, n, v, k) == less(s, k, s.mem[n].Value, v)

\* Node.Insert, line 39: the direction test.
goesLeft(s, n, v, k) == less(s, k, v, s.mem[n].Value)

\* Log entry of a base case of Node.Insert on n that finds the other child
\* present (the branch that sets n.bal = 0): that child and whether it is a
\* leaf.  Nothing is logged when the other child is absent.
baseCase(m, n, other) ==
  IF other = Nil THEN <<>>
  ELSE <<[node |-> n, other |-> other,
          leaf |-> m[other].Left = Nil /\ m[other].Right = Nil]>>

\* The left base case pasted from the right one with n.Right left in place:
\* the new node is stored in n.Right.
newLeftAssignsRight(s, n, v) ==
  LET id == Len(s.mem) + 1
      m1 == [Append(s.mem, NewNode(v)) EXCEPT ![n].Right = id]
      m2 == [m1 EXCEPT ![n].bal = IF m1[n].Right = Nil THEN -1 ELSE 0]
  IN [s EXCEPT !.mem = m2, !.bases = @ \o baseCase(s.mem, n, s.mem[n].Right)]

\* Node.Insert, lines 43-52: no left child, create one and set bal.
newLeft(s, n, v) ==
  LET id == Len(s.mem) + 1
      m1 == [Append(s.mem, NewNode(v)) EXCEPT ![n].Left = id]
      m2 == [m1 EXCEPT ![n].bal = IF m1[n].Right = Nil THEN -1 ELSE 0]
  IN [s EXCEPT !.mem = m2, !.bases = @ \o baseCase(s.mem, n, s.mem[n].Right)]

\* Node.Insert, lines 68-73: no right child, create one and set bal.
newRight(s, n, v) ==
  LET id == Len(s.mem) + 1
      m1 == [Append(s.mem, NewNode(v)) EXCEPT ![n].Right = id]
      m2 == [m1 EXCEPT ![n].bal = IF m1[n].Left = Nil THEN 1 ELSE 0]
  IN [s EXCEPT !.mem = m2, !.bases = @ \o baseCase(s.mem, n, s.mem[n].Left)]

\* The left recursive case with the lower threshold off by one: a child with
\* bal -1 is handed to rebalance.
afterLeftEager(s, n, grew) ==
  IF ~grew THEN s
  ELSE LET l == s.mem[n].Left
       IN IF s.mem[l].bal < 0 \/ s.mem[l].bal > 1
            THEN rebalanceObserved(s, n, l)
            ELSE [s EXCEPT !.mem[n].bal = @ - 1]

\* Node.Insert, lines 55-63: after n.Left.Insert returned grew.
afterLeft(s, n, grew) ==
  IF ~grew THEN s
  ELSE LET l == s.mem[n].Left
       IN IF s.mem[l].bal < -1 \/ s.mem[l].bal > 1
            THEN rebalanceObserved(s, n, l)
            ELSE [s EXCEPT !.mem[n].bal = @ - 1]

\* Node.Insert, lines 75-81: after n.Right.Insert returned grew.
afterRight(s, n, grew) ==
  IF ~grew THEN s
  ELSE LET r == s.mem[n].Right
       IN IF s.mem[r].bal < -1 \/ s.mem[r].bal > 1
            THEN rebalanceObserved(s, n, r)
            ELSE [s EXCEPT !.mem[n].bal = @ + 1]

\* Node.Insert, lines 84-88: the returned boolean.
returnValue(m, n) == m[n].bal # 0

\* func (n *Node) Insert(value, less) bool.  Yields the execution state
\* after the call and the returned boolean; the call is logged with the
\* measured height of n's subtree and the stored n.bal before and after it.
RECURSIVE NodeInsert(_, _, _, _)

\* Node.Insert, lines 39-82: the two branches, d being the outcome of the
\* direction test; the process dies there when less panics.
branches(d, s, n, v, k) ==
  IF d = "panic" THEN LessPanic(s)
  ELSE IF d = "true" THEN
    IF s.mem[n].Left = Nil THEN newLeft(s, n, v)
    ELSE LET sub == NodeInsert(s, s.mem[n].Left, v, k + 1)
         IN IF ~sub.s.ok THEN sub.s ELSE afterLeft(sub.s, n, sub.ret)
  ELSE
    IF s.mem[n].Right = Nil THEN newRight(s, n, v)
    ELSE LET sub == NodeInsert(s, s.mem[n].Right, v, k + 1)
         IN IF ~sub.s.ok THEN sub.s ELSE afterRight(sub.s, n, sub.ret)

\* k is the number of less calls the enclosing Tree.Insert has made so far.
NodeInsert(s, n, v, k) ==
  LET before == Height(s.mem, n)
      body == branches(goesLeft(s, n, v, k), s, n, v, k)
  IN IF ~body.ok THEN [s |-> body, ret |-> FALSE]
     ELSE LET ret == returnValue(body.mem, n)
              rec == [node |-> n, before |-> before,
                      after |-> Height(body.mem, n), ret |-> ret,
                      bal0 |-> s.mem[n].bal, bal1 |-> body.mem[n].bal]
          IN [s |-> [body EXCEPT !.calls = Append(@, rec)], ret |-> ret]

\* A Tree.rebalance that reads the new root from fakeParent.Right.
TreeRebalanceReadsRight(s, root) ==
  LET fake == Len(s.mem) + 1
      node == [Value |-> FakeParentValue, Left |-> root, Right |-> Nil, bal |-> 0]
      s1   == rebalanceObserved([s EXCEPT !.mem = Append(@, node)], fake, root)
  IN IF ~s1.ok THEN [s |-> s1, root |-> root]
     ELSE [s    |-> [s1 EXCEPT !.mem = SubSeq(@, 1, fake - 1)],
           root |-> s1.mem[fake].Right]

\* func (t *Tree) rebalance(): the fake parent is allocated, used as the
\* parent of the root, and dropped again once the new root is read from it.
TreeRebalance(s, root) ==
  LET fake == Len(s.mem) + 1
      node == [Value |-> FakeParentValue, Left |-> root, Right |-> Nil, bal |-> 0]
      s1   == rebalanceObserved([s EXCEPT !.mem = Append(@, node)], fake, root)
  IN IF ~s1.ok THEN [s |-> s1, root |-> root]
     ELSE [s    |-> [s1 EXCEPT !.mem = SubSeq(@, 1, fake - 1)],
           root |-> s1.mem[fake].Left]

\* func (t *Tree) Insert(value, less), on a non-empty tree.
TreeInsert(m, root, v, u) ==
  LET r == NodeInsert(Exec(m, u), root, v, 0)
  IN IF ~r.s.ok THEN [s |-> r.s, root |-> root]
     ELSE IF r.s.mem[root].bal < -1 \/ r.s.mem[root].bal > 1
       THEN TreeRebalance(r.s, root)
       ELSE [s |-> r.s, root |-> root]

--------------------------------------------------------------------------
Init ==
  /\ mem = <<>>
  /\ Root = Nil
  /\ inserted = <<>>
  /\ panicked = FALSE
  /\ lessPanicked = FALSE
  /\ calls = <<>>
  /\ rots = <<>>
  /\ bases = <<>>

\* tree.Insert(v, less) on the empty tree.
InsertEmpty(v) ==
  /\ ~panicked /\ ~lessPanicked
  /\ Len(inserted) < MaxInserts
  /\ Root = Nil
  /\ mem' = Append(mem, NewNode(v))
  /\ Root' = Len(mem) + 1
  /\ inserted' = Append(inserted, v)
  /\ calls' = <<>>
  /\ rots' = <<>>
  /\ bases' = <<>>
  /\ UNCHANGED <<panicked, lessPanicked>>

\* tree.Insert(v, less) on a non-empty tree, with the person u at stdin.
\* The process dies when a nil pointer is dereferenced or less panics.
Insert(v, u) ==
  /\ ~panicked /\ ~lessPanicked
  /\ Len(inserted) < MaxInserts
  /\ Root # Nil
  /\ \E r \in {TreeInsert(mem, Root, v, u)} :
        /\ mem' = r.s.mem
        /\ Root' = r.root
        /\ panicked' = (r.s.err = "nil")
        /\ lessPanicked' = (r.s.err = "stdin")
        /\ calls' = r.s.calls
        /\ rots' = r.s.rots
        /\ bases' = r.s.bases
        /\ inserted' = IF r.s.ok THEN Append(inserted, v) ELSE inserted

Next == \E v \in Values : InsertEmpty(v) \/ \E u \in Users : Insert(v, u)

Spec == Init /\ [][Next]_vars

\* The same program fed pairwise distinct values only.
InRange(seq, v) == \E i \in 1..Len(seq) : seq[i] = v

InsertDistinct(v) ==
  /\ ~InRange(inserted, v)
  /\ (InsertEmpty(v) \/ \E u \in Users : Insert(v, u))

NextDistinct == \E v \in DistinctValues : InsertDistinct(v)

SpecDistinct == Init /\ [][NextDistinct]_vars

\* The same program fed values with repeats from a wider range.
NextWide == \E v \in WideValues : InsertEmpty(v) \/ \E u \in Users : Insert(v, u)

SpecWide == Init /\ [][NextWide]_vars


--------------------------------------------------------------------------
\* Observations of a state.

\* The nodes reachable from Root, in the order Traverse visits them.
Visited == Traverse(mem, Root)
\* The values Traverse hands to the visitor, in order.
Out == TraverseValues(mem, Root)
\* The nodes reachable from Root.
Nodes == {Visited[i] : i \in 1..Len(Visited)}
\* The nodes of the subtree at pointer n.
Subtree(n) == LET t == Traverse(mem, n) IN {t[i] : i \in 1..Len(t)}

\* How often v occurs in the sequence q.
Count(q, v) == Cardinality({i \in 1..Len(q) : q[i] = v})
\* The set of elements of the sequence q.
Range(q) == {q[i] : i \in 1..Len(q)}
\* The ascending enumeration under Less of a set of pairwise distinct values.
Sorted(S) ==
  [i \in 1..Cardinality(S) |->
     CHOOSE x \in S : Cardinality({y \in S : Prefers(y, x)}) = i - 1]

HasDuplicates(q) == \E i, j \in 1..Len(q) : i # j /\ q[i] = q[j]
\* The latest Tree.Insert rotated with the given case of the switch.
Rotated(op) == \E i \in 1..Len(rots) : rots[i].op = op
\* The latest Tree.Insert rebalanced the root through Tree.rebalance: the
\* rebalanced node is the receiver of the outermost Node.Insert call.
RootRebalanced ==
  /\ calls # <<>>
  /\ \E i \in 1..Len(rots) : rots[i].node = calls[Len(calls)].node

--------------------------------------------------------------------------
\* C1: whatever values were inserted, duplicates included, Traverse from
\* Root never visits a value that is less than a value it visited earlier.
C1_TraverseNonDecreasing ==
  LET out == Out
  IN \A i, j \in 1..Len(out) : i < j => ~Prefers(out[j], out[i])

\* C1 case: six values with repeats are stored and the latest insertion
\* went through a double rotation.
C1_Witness ==
  /\ Len(inserted) = 6
  /\ HasDuplicates(inserted)
  /\ Rotated("rotateRightLeft")
  /\ Len(Out) = 6

\* C2: after each completed Tree.Insert the stored bal of every reachable
\* node equals the measured height of its right subtree minus that of its
\* left subtree.
C2_BalIsHeightDifference ==
  \A n \in Nodes :
    mem[n].bal = Height(mem, mem[n].Right) - Height(mem, mem[n].Left)

\* C3: after each completed Tree.Insert the stored bal of every reachable
\* node is -1, 0 or 1; no stored -2 or +2 is left behind.
C3_BalInRange ==
  \A n \in Nodes : mem[n].bal \in {-1, 0, 1}

\* C3 case: the latest insertion drove a node to -2 with a right-heavy left
\* child and rebalanced it.
C3_Witness ==
  /\ \E i \in 1..Len(rots) : rots[i].bal = -2 /\ rots[i].side = 1
  /\ Len(inserted) >= 6
  /\ ~panicked

--------------------------------------------------------------------------
\* Natural numbers too large for a machine word, as little-endian digit
\* sequences in base 10000.
RECURSIVE BigTimes(_, _, _)
BigTimes(d, k, carry) ==
  IF d = <<>> THEN (IF carry = 0 THEN <<>> ELSE <<carry>>)
  ELSE LET t == Head(d) * k + carry
       IN <<t % 10000>> \o BigTimes(Tail(d), k, t \div 10000)

RECURSIVE BigPow(_, _)
BigPow(k, e) == IF e = 0 THEN <<1>> ELSE BigTimes(BigPow(k, e - 1), k, 0)

RECURSIVE BigLeq(_, _)
BigLeq(a, b) ==
  IF Len(a) # Len(b) THEN Len(a) < Len(b)
  ELSE IF a = <<>> THEN TRUE
  ELSE IF a[Len(a)] # b[Len(b)] THEN a[Len(a)] < b[Len(b)]
  ELSE BigLeq(SubSeq(a, 1, Len(a) - 1), SubSeq(b, 1, Len(b) - 1))

\* h <= 1.44 * log2(n + 2), that is 25 h <= 36 log2(n + 2), that is
\* 2^(25 h) <= (n + 2)^36, computed as 32^(5 h) <= ((n + 2)^2)^18.
WithinAVLHeightBound(h, n) ==
  BigLeq(BigPow(32, 5 * h), BigPow((n + 2) * (n + 2), 18))

\* C4: after n insertions the measured height h of the tree satisfies
\* h <= 1.44 * log2(n + 2).
C4_HeightBound ==
  WithinAVLHeightBound(Height(mem, Root), Len(inserted))

--------------------------------------------------------------------------
\* C5: n pairwise distinct values inserted in any order are traversed in
\* one and the same sequence, the values in ascending order under Less;
\* the order of insertion does not show in the output.
C5_PermutationsSameOutput ==
  ~HasDuplicates(inserted) => Out = Sorted(Range(inserted))

\* C5 case: six distinct values were inserted in an order that is neither
\* ascending nor descending and that ended in a double rotation.
C5_Witness ==
  /\ Len(inserted) = 6
  /\ ~HasDuplicates(inserted)
  /\ inserted # Sorted(Range(inserted))
  /\ Rotated("rotateLeftRight")
  /\ Out = Sorted(Range(inserted))

\* C6: after k Tree.Insert calls exactly k nodes are reachable from Root,
\* each visited once, and the visited values are the inserted values with
\* their multiplicities.
C6_OneNodePerInsert ==
  LET visited == Visited
      out == [i \in 1..Len(visited) |-> mem[visited[i]].Value]
  IN /\ Len(visited) = Len(inserted)
     /\ Cardinality(Range(visited)) = Len(inserted)
     /\ \A v \in Range(inserted) \cup Range(out) :
          Count(out, v) = Count(inserted, v)

\* C6 case: a value already stored was inserted again and that insertion
\* rebalanced the root.
C6_Witness ==
  /\ Len(inserted) >= 5
  /\ InRange(SubSeq(inserted, 1, Len(inserted) - 1), inserted[Len(inserted)])
  /\ RootRebalanced
  /\ Len(Visited) = Len(inserted)

\* C7: three distinct values inserted in ascending or in descending order
\* give the tree with the middle value at the root, the smallest as its left
\* child, the largest as its right child, all three bal 0, traversed as
\* smallest, middle, largest.
C7_ThreeInARow ==
  \A a, b, c \in DistinctValues :
    (Prefers(a, b) /\ Prefers(b, c) /\ inserted \in {<<a, b, c>>, <<c, b, a>>}) =>
      /\ Root # Nil
      /\ mem[Root].Value = b
      /\ mem[Root].Left # Nil
      /\ mem[Root].Right # Nil
      /\ mem[mem[Root].Left].Value = a
      /\ mem[mem[Root].Right].Value = c
      /\ mem[Root].bal = 0
      /\ mem[mem[Root].Left].bal = 0
      /\ mem[mem[Root].Right].bal = 0
      /\ mem[mem[Root].Left].Left = Nil /\ mem[mem[Root].Left].Right = Nil
      /\ mem[mem[Root].Right].Left = Nil /\ mem[mem[Root].Right].Right = Nil
      /\ Out = <<a, b, c>>

\* C7 case: 1, 2, 3 were inserted in this order and the root was rotated
\* to the left.
C7_Witness ==
  /\ inserted = <<1, 2, 3>>
  /\ Rotated("rotateLeft")
  /\ mem[Root].Value = 2

\* C8: an Insert of a value that is not stored adds one node; an Insert of
\* a value that is already stored adds none: the number of nodes in the tree
\* is the same before and after the call.
C8_ReplaceOnEqual ==
  [][Len(inserted') = Len(inserted) + 1 =>
       LET before == Len(Visited)
           after  == Len(Traverse(mem', Root'))
       IN IF InRange(Out, inserted'[Len(inserted')])
            THEN after = before
            ELSE after = before + 1]_vars

\* C9: for every node n, every value in n's left subtree is less than n's
\* value and every value in n's right subtree is not less than n's value.
C9_BSTOrdering ==
  \A n \in Nodes :
    /\ \A x \in Subtree(mem[n].Left) : Prefers(mem[x].Value, mem[n].Value)
    /\ \A x \in Subtree(mem[n].Right) : ~Prefers(mem[x].Value, mem[n].Value)

\* C10: every Node.Insert call returns true exactly when the measured height
\* of the receiver's subtree is greater after the call than before it.
C10_ReturnIffGrew ==
  \A i \in 1..Len(calls) : calls[i].ret <=> (calls[i].after > calls[i].before)

--------------------------------------------------------------------------
\* The heap as a graph, without assuming that it is a tree.

\* The non-nil children of node n.
Kids(m, n) == {m[n].Left, m[n].Right} \ {Nil}

\* The nodes reached from the set S in at most k pointer steps.
RECURSIVE ReachFrom(_, _, _)
ReachFrom(m, S, k) ==
  IF k = 0 THEN S
  ELSE ReachFrom(m, S \cup UNION {Kids(m, n) : n \in S}, k - 1)

\* The nodes reachable from Root.
Reachable == IF Root = Nil THEN {} ELSE ReachFrom(mem, {Root}, Len(mem))

\* The child slots of nodes of R that point at x.
SlotsAt(m, R, x) ==
  {p \in R : m[p].Left = x} \cup {-p : p \in {q \in R : m[q].Right = x}}

\* C11: after every completed Tree.Insert the nodes reachable from Root
\* form a tree: every node but Root is the child of exactly one node, in
\* exactly one of its two slots, Root is nobody's child, and no node is
\* reachable from its own children.
C11_OwnershipTree ==
  LET R == Reachable
  IN \A x \in R :
       /\ Cardinality(SlotsAt(mem, R, x)) = (IF x = Root THEN 0 ELSE 1)
       /\ x \notin ReachFrom(mem, Kids(mem, x), Len(mem))

\* C11 case: the latest insertion went through a double rotation and
\* through the rebalancing of the root by Tree.rebalance.
C11_Witness ==
  /\ RootRebalanced
  /\ \E i \in 1..Len(rots) : rots[i].op \in {"rotateLeftRight", "rotateRightLeft"}
  /\ Cardinality(Reachable) >= 6

\* C12: one Tree.Insert rotates at most once, and once a node has been
\* rebalanced no Node.Insert call that returns later (the calls on its
\* ancestors) changes the stored bal of its receiver.
C12_AtMostOneRotation ==
  /\ Len(rots) <= 1
  /\ \A i \in 1..Len(rots) : \A j \in 1..Len(calls) :
       j > rots[i].at => calls[j].bal1 = calls[j].bal0

\* C13: whenever rebalance is invoked on a node c, the subtree that hangs in
\* c's place afterwards has the measured height c's subtree had before the
\* insertion began.
C13_RebalanceRestoresHeight ==
  \A i \in 1..Len(rots) : rots[i].now = rots[i].was

\* C14: a rebalance of a left-right-heavy node (bal -2, left child +1) or of
\* a right-left-heavy node (bal +2, right child -1) puts the grandchild on
\* top with the child and the node as its children on their old sides, and
\* the bal stored on each of the three is 0 and is that node's measured
\* height(right) - height(left).
C14_DoubleRotation ==
  \A i \in 1..Len(rots) :
    LET e == rots[i]
    IN /\ (e.bal = -2 /\ e.side = 1) =>
            /\ e.op = "rotateLeftRight"
            /\ e.top = e.grand /\ e.topLeft = e.kid /\ e.topRight = e.node
       /\ (e.bal = 2 /\ e.side = -1) =>
            /\ e.op = "rotateRightLeft"
            /\ e.top = e.grand /\ e.topLeft = e.node /\ e.topRight = e.kid
       /\ ((e.bal = -2 /\ e.side = 1) \/ (e.bal = 2 /\ e.side = -1)) =>
            /\ Len(e.trio) = 3
            /\ \A k \in 1..Len(e.trio) :
                 e.trio[k].bal = 0 /\ e.trio[k].bal = e.trio[k].diff

\* C15: whenever Node.Insert creates a leaf in an absent child slot of a
\* node whose other child is present, that other child is a leaf.
C15_SiblingIsLeaf ==
  \A i \in 1..Len(bases) : bases[i].leaf

\* C16: each time rebalance is invoked, the pair (bal of the node, bal of
\* the child on its overweight side) is one of (-2,-1), (-2,+1), (+2,+1),
\* (+2,-1) and the matching rotation is the one performed; the switch never
\* falls through.
C16_OneOfFourCases ==
  \A i \in 1..Len(rots) :
    /\ <<rots[i].bal, rots[i].side>> \in {<<-2, -1>>, <<-2, 1>>, <<2, 1>>, <<2, -1>>}
    /\ rots[i].op = (IF rots[i].bal = -2
                       THEN (IF rots[i].side = -1 THEN "rotateRight"
                                                  ELSE "rotateLeftRight")
                       ELSE (IF rots[i].side = 1 THEN "rotateLeft"
                                                 ELSE "rotateRightLeft"))

\* C16 case: Node.Insert, not Tree.rebalance, invoked rebalance on a child
\* with bal +2 whose right child had bal -1.
C16_Witness ==
  \E i \in 1..Len(rots) :
    /\ rots[i].bal = 2 /\ rots[i].side = -1
    /\ rots[i].at < Len(calls)

\* C18: no Tree.Insert dereferences an absent node in rebalance or in one
\* of the four rotations: the program never dies of a nil pointer.
C18_NoNilDereference == ~panicked

\* C18 case: one insertion went through two rebalance calls, which read
\* children and grandchildren of two nodes, and completed.
C18_Witness ==
  /\ ~panicked
  /\ Len(rots) = 2
  /\ \E i \in 1..Len(rots) : rots[i].grand # Nil

==========================================================================
